---- MODULE Spec2Model ----
(***************************************************************************)
(* Food App API (src/main.py, src/schemas.py).                             *)
(*                                                                         *)
(* The store holds two collections, "menuitem" and "order".  Every request *)
(* runs on its own worker thread (FastAPI runs "def" handlers in a thread  *)
(* pool), so a handler is a sequence of steps, one per store operation,    *)
(* and the steps of different requests interleave.  Everything a handler   *)
(* does between two store operations is local and is folded into the step  *)
(* of the store operation that follows it.  Spec interleaves two requests  *)
(* drawn from a few request bodies; SpecSeq serves one request at a time   *)
(* drawn from larger sets of request bodies.                               *)
(*                                                                         *)
(* Money is kept in thousandths of a currency unit (10.99 is 10990), so    *)
(* that round(total, 2) is a real operation: it rounds to a multiple of    *)
(* 10.  A JSON object is a function from its keys to its values: a missing *)
(* key is a key outside the DOMAIN.  The optional fields description,      *)
(* image_url and notes are carried by no claim and are left out.           *)
(* response is the HTTP response sent last, with the request it answers.   *)
(***************************************************************************)
EXTENDS Integers, Sequences, FiniteSets, TLC

VARIABLES menu, orders, pc, loc, response

vars == <<menu, orders, pc, loc, response>>

(* ---------------------------- bounds ----------------------------------- *)
\* Longest items list of a generated order.
MaxItems == 2
\* Orders accepted for processing (stored or in flight).
MaxOrders == 1
\* Menu items created through POST /menu.
MaxCreated == 1

Threads == {"t1", "t2"}

(* ------------------------- store adapter ------------------------------- *)
\* ObjectId values are numbered in creation order over the whole store.
NewOid(m, o) == Len(m) + Len(o) + 1

\* str(ObjectId)
Str(oid) == "id" \o ToString(oid)

\* create_document(collection, data): the document is appended under a
\* fresh identity.
create_document(coll, oid, data) == Append(coll, [_id |-> oid] @@ data)

\* get_documents(collection, limit=None)
get_documents(coll) == coll

Min(a, b) == IF a < b THEN a ELSE b

\* list_orders' default limit.
DefaultLimit == 20

get_documents_limit(coll, limit) == SubSeq(coll, 1, Min(limit, Len(coll)))

(* ---------------------------- main.py ---------------------------------- *)
serialize_doc(doc) ==
    [k \in (DOMAIN doc \ {"_id"}) \cup {"id"} |->
        IF k = "id" THEN Str(doc._id) ELSE doc[k]]

SerializeAll(docs) == [i \in 1..Len(docs) |-> serialize_doc(docs[i])]

seed_items ==
    << [name |-> "Margherita Pizza", price |-> 10990, category |-> "Pizza",
        is_available |-> TRUE],
       [name |-> "Spaghetti Carbonara", price |-> 12500, category |-> "Pasta",
        is_available |-> TRUE],
       [name |-> "Caesar Salad", price |-> 8750, category |-> "Salad",
        is_available |-> TRUE],
       [name |-> "Iced Lemon Tea", price |-> 3500, category |-> "Drinks",
        is_available |-> TRUE] >>

(* --------------------------- schemas.py -------------------------------- *)
\* A MenuItem schema that forgot ge=0 on price.
ValidMenuItemNoPriceBound(item) ==
    /\ "name" \in DOMAIN item
    /\ "category" \in DOMAIN item
    /\ "price" \in DOMAIN item

\* MenuItem: name, price (ge=0) and category are required.
ValidMenuItem(item) ==
    /\ "name" \in DOMAIN item
    /\ "category" \in DOMAIN item
    /\ "price" \in DOMAIN item
    /\ item.price >= 0

\* The validated MenuItem: is_available defaults to True, unknown keys are
\* dropped.
MenuItemModel(item) ==
    [name |-> item.name, price |-> item.price, category |-> item.category,
     is_available |-> IF "is_available" \in DOMAIN item
                      THEN item.is_available ELSE TRUE]

\* OrderItem: menu_item_id required, quantity required with ge=1.
ValidOrderItem(it) ==
    /\ "menu_item_id" \in DOMAIN it
    /\ "quantity" \in DOMAIN it
    /\ it.quantity >= 1

\* An Order schema that demands at least one item.
ValidOrderNonEmptyItems(o) ==
    /\ "customer_name" \in DOMAIN o
    /\ "customer_phone" \in DOMAIN o
    /\ "customer_address" \in DOMAIN o
    /\ "items" \in DOMAIN o
    /\ o.items # <<>>
    /\ \A i \in 1..Len(o.items) : ValidOrderItem(o.items[i])

\* Order: the three customer fields and items are required strings / list;
\* no length constraint is declared on any of them.
ValidOrder(o) ==
    /\ "customer_name" \in DOMAIN o
    /\ "customer_phone" \in DOMAIN o
    /\ "customer_address" \in DOMAIN o
    /\ "items" \in DOMAIN o
    /\ \A i \in 1..Len(o.items) : ValidOrderItem(o.items[i])

\* The validated Order (order.model_dump()): status defaults to "pending",
\* keys the schema does not declare (a caller's total) are dropped.
OrderModel(o) ==
    [customer_name |-> o.customer_name,
     customer_phone |-> o.customer_phone,
     customer_address |-> o.customer_address,
     items |-> o.items,
     status |-> IF "status" \in DOMAIN o THEN o.status ELSE "pending"]

(* ------------------------ create_order helpers ------------------------- *)
\* Lines 126-130: the mapping from str(_id) to price of the documents read.
IdToPrice(menu_docs) ==
    [s \in {Str(menu_docs[i]._id) : i \in 1..Len(menu_docs)} |->
        LET i == CHOOSE j \in 1..Len(menu_docs) : Str(menu_docs[j]._id) = s
        IN  IF "price" \in DOMAIN menu_docs[i] THEN menu_docs[i].price ELSE 0]

\* round(x, 2) of a non-negative amount in thousandths: the nearest
\* multiple of 10, a tie going to the even hundredth.
Round2(x) ==
    LET q == x \div 10
        r == x % 10
    IN  IF r > 5 \/ (r = 5 /\ q % 2 = 1) THEN (q + 1) * 10 ELSE q * 10

\* A loop that rounds every line before adding it.
RECURSIVE PriceLoopRoundsEachLine(_, _, _, _)
PriceLoopRoundsEachLine(items, i, id_to_price, total) ==
    IF i > Len(items)
    THEN [ok |-> TRUE, total |-> total]
    ELSE IF items[i].menu_item_id \notin DOMAIN id_to_price
         THEN [ok |-> FALSE, missing |-> items[i].menu_item_id]
         ELSE PriceLoopRoundsEachLine(items, i + 1, id_to_price,
                 total + Round2(id_to_price[items[i].menu_item_id] * items[i].quantity))

\* A loop that goes through every item and reports the last unknown one.
RECURSIVE PriceLoopReportsLast(_, _, _, _)
PriceLoopReportsLast(items, i, id_to_price, total) ==
    IF i > Len(items)
    THEN [ok |-> TRUE, total |-> total]
    ELSE LET rest == PriceLoopReportsLast(items, i + 1, id_to_price, total)
         IN  IF items[i].menu_item_id \in DOMAIN id_to_price
             THEN IF rest.ok
                  THEN [ok |-> TRUE,
                        total |-> rest.total
                                  + id_to_price[items[i].menu_item_id] * items[i].quantity]
                  ELSE rest
             ELSE IF rest.ok
                  THEN [ok |-> FALSE, missing |-> items[i].menu_item_id]
                  ELSE rest

\* A loop that skips an unknown item instead of raising.
RECURSIVE PriceLoopSkipsMissing(_, _, _, _)
PriceLoopSkipsMissing(items, i, id_to_price, total) ==
    IF i > Len(items)
    THEN [ok |-> TRUE, total |-> total]
    ELSE IF items[i].menu_item_id \notin DOMAIN id_to_price
         THEN PriceLoopSkipsMissing(items, i + 1, id_to_price, total)
         ELSE PriceLoopSkipsMissing(items, i + 1, id_to_price,
                 total + id_to_price[items[i].menu_item_id] * items[i].quantity)

\* Lines 132-136: the loop over order.items, from item i with running total.
RECURSIVE PriceLoop(_, _, _, _)
PriceLoop(items, i, id_to_price, total) ==
    IF i > Len(items)
    THEN [ok |-> TRUE, total |-> total]
    ELSE IF items[i].menu_item_id \notin DOMAIN id_to_price
         THEN [ok |-> FALSE, missing |-> items[i].menu_item_id]
         ELSE PriceLoop(items, i + 1, id_to_price,
                        total + id_to_price[items[i].menu_item_id] * items[i].quantity)

(* ----------------------------- requests -------------------------------- *)
NoLoc == [none |-> TRUE]
NoResponse == [op |-> "none", status |-> 0]

\* Request bodies of the runs that serve one request at a time.
MenuItemPayloads ==
    { [name |-> "Dish", price |-> p, category |-> "Main"] : p \in {-1000, 0, 2} }
    \cup { [price |-> 2, category |-> "Main"], [name |-> "Dish", price |-> 2] }

\* Order lines: the first and the fourth document created (the first and
\* the last seed item when the menu was seeded first), and an identity the
\* store never assigns.
OrderItems ==
    { [menu_item_id |-> Str(1), quantity |-> 2],
      [menu_item_id |-> Str(4), quantity |-> 1],
      [menu_item_id |-> "nope", quantity |-> 1] }

ZeroLine == [menu_item_id |-> Str(1), quantity |-> 0]

PizzaAndTea ==
    << [menu_item_id |-> Str(1), quantity |-> 2],
       [menu_item_id |-> Str(4), quantity |-> 1] >>

RECURSIVE SeqsUpTo(_, _)
SeqsUpTo(S, n) ==
    IF n = 0 THEN {<<>>}
    ELSE LET shorter == SeqsUpTo(S, n - 1)
         IN  shorter \cup {Append(s, x) : s \in {z \in shorter : Len(z) = n - 1}, x \in S}

GoodCustomer ==
    [customer_name |-> "Ann", customer_phone |-> "555", customer_address |-> "Home"]

\* Orders of a well-formed customer over every list of order lines; two
\* with a caller-supplied status and total; two with a zero quantity;
\* one-line orders of customers with an empty or a missing field.
OrderPayloads ==
    { GoodCustomer @@ [items |-> its] : its \in SeqsUpTo(OrderItems, MaxItems) }
    \cup { GoodCustomer @@ [items |-> its, status |-> "confirmed", total |-> 99990] :
             its \in { <<>>, PizzaAndTea } }
    \cup { GoodCustomer @@ [items |-> its] :
             its \in { <<ZeroLine>>,
                       << [menu_item_id |-> Str(1), quantity |-> 2], ZeroLine >> } }
    \cup { c @@ [items |-> <<[menu_item_id |-> Str(1), quantity |-> 2]>>] :
             c \in { [GoodCustomer EXCEPT !.customer_name = ""],
                     [GoodCustomer EXCEPT !.customer_phone = ""],
                     [GoodCustomer EXCEPT !.customer_address = ""],
                     [customer_phone |-> "555", customer_address |-> "Home"] } }

\* Request bodies of the runs that interleave two requests.
ConcMenuItemPayloads ==
    { [name |-> "Dish", price |-> p, category |-> "Main"] : p \in {-1000, 2} }

ConcOrderPayloads ==
    { GoodCustomer @@ [items |-> its] :
        its \in { <<>>, << [menu_item_id |-> Str(4), quantity |-> 1] >>, PizzaAndTea } }

Limits == {1, DefaultLimit}

\* The documents of the menu that are no seed item.
NumCreated(m) ==
    Cardinality({i \in 1..Len(m) :
                   \A k \in 1..Len(seed_items) : m[i].name # seed_items[k].name})

(* ------------------------------ state ---------------------------------- *)
Init ==
    /\ menu = <<>>
    /\ orders = <<>>
    /\ pc = [t \in Threads |-> "idle"]
    /\ loc = [t \in Threads |-> NoLoc]
    /\ response = NoResponse

(* ----------------------------- GET /menu ------------------------------- *)
\* A list_menu that seeds without looking at what it read.
ListMenuReadAlwaysSeeds(t) ==
    /\ pc[t] = "idle"
    /\ pc' = [pc EXCEPT ![t] = "lm_seed"]
    /\ loc' = [loc EXCEPT ![t] = [si |-> 1]]
    /\ UNCHANGED <<menu, orders, response>>

\* Lines 95-96, and 106 when the collection is not empty.
ListMenuRead(t) ==
    /\ pc[t] = "idle"
    /\ LET items == get_documents(menu)
       IN  IF items = <<>>
           THEN /\ pc' = [pc EXCEPT ![t] = "lm_seed"]
                /\ loc' = [loc EXCEPT ![t] = [si |-> 1]]
                /\ UNCHANGED response
           ELSE /\ response' = [op |-> "list_menu", status |-> 200,
                                body |-> SerializeAll(items)]
                /\ UNCHANGED <<pc, loc>>
    /\ UNCHANGED <<menu, orders>>

\* Lines 103-104: one create_document per seed item.
ListMenuSeed(t) ==
    /\ pc[t] = "lm_seed"
    /\ menu' = create_document(menu, NewOid(menu, orders), seed_items[loc[t].si])
    /\ IF loc[t].si = Len(seed_items)
       THEN /\ pc' = [pc EXCEPT ![t] = "lm_reread"]
            /\ loc' = [loc EXCEPT ![t] = NoLoc]
       ELSE /\ loc' = [loc EXCEPT ![t].si = @ + 1]
            /\ UNCHANGED pc
    /\ UNCHANGED <<orders, response>>

\* Lines 105-106.
ListMenuReread(t) ==
    /\ pc[t] = "lm_reread"
    /\ pc' = [pc EXCEPT ![t] = "idle"]
    /\ response' = [op |-> "list_menu", status |-> 200,
                    body |-> SerializeAll(get_documents(menu))]
    /\ UNCHANGED <<menu, orders, loc>>

(* ----------------------------- POST /menu ------------------------------ *)
\* Lines 109-112; a body that fails validation gets 422 from the framework
\* and never reaches the handler.
CreateMenuItem(t, item) ==
    /\ pc[t] = "idle"
    /\ NumCreated(menu) < MaxCreated
    /\ IF ValidMenuItem(item)
       THEN /\ menu' = create_document(menu, NewOid(menu, orders), MenuItemModel(item))
            /\ response' = [op |-> "create_menu_item", req |-> item,
                            status |-> 200, body |-> [id |-> Str(NewOid(menu, orders))]]
       ELSE /\ response' = [op |-> "create_menu_item", req |-> item,
                            status |-> 422]
            /\ UNCHANGED menu
    /\ UNCHANGED <<orders, pc, loc>>

(* ---------------------------- POST /orders ----------------------------- *)
\* Request validation, then lines 126-130.
CreateOrderRead(t, o) ==
    /\ pc[t] = "idle"
    /\ Len(orders) + Cardinality({u \in Threads : pc[u] = "co_price"}) < MaxOrders
    /\ IF ValidOrder(o)
       THEN /\ pc' = [pc EXCEPT ![t] = "co_price"]
            /\ loc' = [loc EXCEPT ![t] =
                         [req |-> o, order |-> OrderModel(o),
                          menu_docs |-> get_documents(menu)]]
            /\ UNCHANGED response
       ELSE /\ response' = [op |-> "create_order", req |-> o,
                            status |-> 422]
            /\ UNCHANGED <<pc, loc>>
    /\ UNCHANGED <<menu, orders>>

\* A create_order that writes the order before it has looked up its items.
CreateOrderFinishPersistsFirst(t) ==
    /\ pc[t] = "co_price"
    /\ pc' = [pc EXCEPT ![t] = "idle"]
    /\ loc' = [loc EXCEPT ![t] = NoLoc]
    /\ LET order == loc[t].order
           new_id == NewOid(menu, orders)
           priced == PriceLoop(order.items, 1, IdToPrice(loc[t].menu_docs), 0)
       IN  /\ orders' = create_document(orders, new_id,
                           [total |-> IF priced.ok THEN Round2(priced.total) ELSE 0] @@ order)
           /\ IF priced.ok
              THEN response' = [op |-> "create_order", req |-> loc[t].req, status |-> 200,
                                body |-> [id |-> Str(new_id),
                                          total |-> Round2(priced.total),
                                          status |-> order.status]]
              ELSE response' = [op |-> "create_order", req |-> loc[t].req, status |-> 400,
                                detail |-> priced.missing]
    /\ UNCHANGED menu

\* Lines 132-142.
CreateOrderFinish(t) ==
    /\ pc[t] = "co_price"
    /\ pc' = [pc EXCEPT ![t] = "idle"]
    /\ loc' = [loc EXCEPT ![t] = NoLoc]
    /\ LET order == loc[t].order
           priced == PriceLoop(order.items, 1, IdToPrice(loc[t].menu_docs), 0)
       IN  IF priced.ok
           THEN LET order_dict == [total |-> Round2(priced.total)] @@ order
                    new_id == NewOid(menu, orders)
                IN  /\ orders' = create_document(orders, new_id, order_dict)
                    /\ response' = [op |-> "create_order",
                                    req |-> loc[t].req, status |-> 200,
                                    body |-> [id |-> Str(new_id),
                                              total |-> Round2(priced.total),
                                              status |-> order.status]]
           ELSE /\ response' = [op |-> "create_order",
                                req |-> loc[t].req, status |-> 400,
                                detail |-> priced.missing]
                /\ UNCHANGED orders
    /\ UNCHANGED menu

(* ----------------------------- GET /orders ----------------------------- *)
\* A list_orders that takes the documents it returns out of the store.
ListOrdersConsuming(t, limit) ==
    /\ pc[t] = "idle"
    /\ response' = [op |-> "list_orders", req |-> limit, status |-> 200,
                    body |-> SerializeAll(get_documents_limit(orders, limit))]
    /\ orders' = SubSeq(orders, Min(limit, Len(orders)) + 1, Len(orders))
    /\ UNCHANGED <<menu, pc, loc>>

\* Lines 145-148.
ListOrders(t, limit) ==
    /\ pc[t] = "idle"
    /\ response' = [op |-> "list_orders", req |-> limit, status |-> 200,
                    body |-> SerializeAll(get_documents_limit(orders, limit))]
    /\ UNCHANGED <<menu, orders, pc, loc>>

\* Two requests at a time, their steps interleaved at the store operations.
Next ==
    \E t \in Threads :
        \/ ListMenuRead(t)
        \/ ListMenuSeed(t)
        \/ ListMenuReread(t)
        \/ \E item \in ConcMenuItemPayloads : CreateMenuItem(t, item)
        \/ \E o \in ConcOrderPayloads : CreateOrderRead(t, o)
        \/ CreateOrderFinish(t)
        \/ ListOrders(t, DefaultLimit)

Spec == Init /\ [][Next]_vars

\* One request in flight at a time (a thread takes a step only while every
\* other thread is idle), over the larger sets of request bodies.
Alone(t) == \A u \in Threads \ {t} : pc[u] = "idle"

NextSeq ==
    \E t \in Threads :
        \/ Alone(t) /\ ListMenuRead(t)
        \/ Alone(t) /\ ListMenuSeed(t)
        \/ Alone(t) /\ ListMenuReread(t)
        \/ \E item \in MenuItemPayloads : Alone(t) /\ CreateMenuItem(t, item)
        \/ \E o \in OrderPayloads : Alone(t) /\ CreateOrderRead(t, o)
        \/ Alone(t) /\ CreateOrderFinish(t)
        \/ \E limit \in Limits : Alone(t) /\ ListOrders(t, limit)

SpecSeq == Init /\ [][NextSeq]_vars

\* Two interleaved requests over the larger sets of request bodies.
NextFull ==
    \E t \in Threads :
        \/ ListMenuRead(t)
        \/ ListMenuSeed(t)
        \/ ListMenuReread(t)
        \/ \E item \in MenuItemPayloads : CreateMenuItem(t, item)
        \/ \E o \in OrderPayloads : CreateOrderRead(t, o)
        \/ CreateOrderFinish(t)
        \/ \E limit \in Limits : ListOrders(t, limit)

SpecFull == Init /\ [][NextFull]_vars

(* ====================== properties of the service ====================== *)
MenuIds(m) == {Str(m[i]._id) : i \in 1..Len(m)}

PriceOfId(m, s) == (CHOOSE d \in {m[i] : i \in 1..Len(m)} : Str(d._id) = s).price

RECURSIVE SumLines(_, _)
SumLines(m, items) ==
    IF items = <<>> THEN 0
    ELSE PriceOfId(m, Head(items).menu_item_id) * Head(items).quantity
         + SumLines(m, Tail(items))

\* The nearest multiple of 10 (no amount of the model ends in 5).
NearestCent(x) == ((x + 5) \div 10) * 10

\* Thread t takes the last step of create_order (lines 132-142).
FinishesOrder(t) == pc[t] = "co_price" /\ pc'[t] = "idle"

AllKnown(items, m) == \A i \in 1..Len(items) : items[i].menu_item_id \in MenuIds(m)

Appended(old, new) == Len(new) = Len(old) + 1 /\ SubSeq(new, 1, Len(old)) = old

Last(s) == s[Len(s)]

\* C1: a create_order whose items all reference menu items of the
\* collection as the call read it succeeds, appends exactly one order
\* document, and the persisted and the returned total both equal the sum of
\* price x quantity over the items, rounded once to two decimals; the
\* caller's own total plays no part.
C1_TotalComputedServerSide ==
    [][\A t \in Threads :
         (FinishesOrder(t) /\ AllKnown(loc[t].req.items, loc[t].menu_docs)) =>
            LET expected == NearestCent(SumLines(menu, loc[t].req.items))
            IN  /\ response'.op = "create_order"
                /\ response'.status = 200
                /\ response'.body.total = expected
                /\ Appended(orders, orders')
                /\ Last(orders').total = expected
                /\ Last(orders').items = loc[t].req.items
                /\ response'.body.id = Str(Last(orders')._id)
                /\ menu' = menu]_vars

\* The spec's scenario: Pizza x2 and Tea x1 with a caller-supplied total of
\* 99.99 gives 25.48.
C1_Witness ==
    /\ response.op = "create_order"
    /\ response.status = 200
    /\ "total" \in DOMAIN response.req
    /\ response.req.total = 99990
    /\ Len(response.req.items) = 2
    /\ response.body.total = 25480
    /\ \E k \in 1..Len(orders) :
          Str(orders[k]._id) = response.body.id /\ orders[k].total = 25480

\* C2: a create_order with at least one menu_item_id absent from the
\* collection as the call read it fails with 400 and changes neither
\* collection, however many valid items precede the absent one.
C2_UnknownItemAbortsOrder ==
    [][\A t \in Threads :
         (FinishesOrder(t) /\ ~AllKnown(loc[t].req.items, loc[t].menu_docs)) =>
            /\ response'.op = "create_order"
            /\ response'.status = 400
            /\ orders' = orders
            /\ menu' = menu]_vars

C2_Witness ==
    /\ response.op = "create_order"
    /\ response.status = 400
    /\ Len(response.req.items) = 2
    /\ response.req.items[1].menu_item_id \in MenuIds(menu)
    /\ response.req.items[2].menu_item_id \notin MenuIds(menu)
    /\ orders = <<>>

\* The statuses of a client error: 400 from the handler, 422 from request
\* validation.
ClientErrors == {400, 422}

EmptyCustomerField(o) ==
    \E f \in {"customer_name", "customer_phone", "customer_address"} :
        f \in DOMAIN o /\ o[f] = ""

NonPositiveQuantity(o) == \E i \in 1..Len(o.items) : o.items[i].quantity < 1

\* C4: create_order rejects with a validation error, and persists nothing
\* of, every order with an empty customer_name, customer_phone or
\* customer_address and every order with an item of quantity below 1.
C4_RejectsEmptyFieldsAndQuantities ==
    /\ (response.op = "create_order"
        /\ (EmptyCustomerField(response.req) \/ NonPositiveQuantity(response.req)))
          => response.status \in ClientErrors
    /\ \A k \in 1..Len(orders) :
          ~EmptyCustomerField(orders[k]) /\ ~NonPositiveQuantity(orders[k])

\* C5: create_menu_item with a negative price fails validation and leaves
\* the menu unchanged; with price 0 and a name and a category it succeeds,
\* appends exactly one document and returns that document's identity as a
\* string.
C5_PriceBound ==
    [][(response'.op = "create_menu_item" /\ response' # response) =>
         LET item == response'.req
         IN  /\ ("price" \in DOMAIN item /\ item.price < 0) =>
                   (response'.status = 422 /\ menu' = menu)
             /\ ({"name", "category", "price"} \subseteq DOMAIN item /\ item.price = 0) =>
                   /\ response'.status = 200
                   /\ Appended(menu, menu')
                   /\ Last(menu').price = 0
                   /\ Last(menu').name = item.name
                   /\ response'.body.id = Str(Last(menu')._id)
                   /\ response'.body.id \notin MenuIds(menu)
             /\ orders' = orders]_vars

C5_Witness ==
    /\ response.op = "create_menu_item"
    /\ response.req.price = 0
    /\ response.status = 200
    /\ \E i \in 1..Len(menu) : Str(menu[i]._id) = response.body.id /\ menu[i].price = 0

\* The first item, in input order, whose identity is not in m.
FirstAbsent(items, m) ==
    items[CHOOSE i \in 1..Len(items) :
            /\ items[i].menu_item_id \notin MenuIds(m)
            /\ \A j \in 1..(i - 1) : items[j].menu_item_id \in MenuIds(m)].menu_item_id

\* C6: when several menu_item_id values of an order are absent, the 400
\* response names exactly the first absent one in input order.
C6_FirstMissingReported ==
    [][\A t \in Threads :
         (FinishesOrder(t) /\ ~AllKnown(loc[t].req.items, loc[t].menu_docs)) =>
            /\ response'.status = 400
            /\ response'.detail = FirstAbsent(loc[t].req.items, loc[t].menu_docs)]_vars

C6_Witness ==
    /\ response.op = "create_order"
    /\ response.status = 400
    /\ Len(response.req.items) = 2
    /\ response.req.items[1].menu_item_id \notin MenuIds(menu)
    /\ response.req.items[2].menu_item_id \notin MenuIds(menu)
    /\ response.req.items[1].menu_item_id # response.req.items[2].menu_item_id
    /\ response.detail = response.req.items[1].menu_item_id

\* C7: whatever the interleaving of requests, every menu_item_id of an
\* order document is the identity of a menu document that was in the
\* menuitem collection when the order document was written.
C7_ReferencesExistAtCreation ==
    [][\A k \in (Len(orders) + 1)..Len(orders') :
         AllKnown(orders'[k].items, menu)]_vars

C7_Witness ==
    /\ \E k \in 1..Len(orders) :
          Len(orders[k].items) = 2 /\ AllKnown(orders[k].items, menu)
    /\ \E t \in Threads : pc[t] # "idle"

C9_EmptyOrderAccepted ==
    (response.op = "create_order"
     /\ {"customer_name", "customer_phone", "customer_address", "items"}
           \subseteq DOMAIN response.req
     /\ response.req.items = <<>>) =>
        /\ response.status = 200
        /\ response.body.total = 0
        /\ response.body.status =
              (IF "status" \in DOMAIN response.req THEN response.req.status ELSE "pending")
        /\ Cardinality({k \in 1..Len(orders) :
                          Str(orders[k]._id) = response.body.id}) = 1
        /\ \A k \in 1..Len(orders) :
              Str(orders[k]._id) = response.body.id =>
                 /\ orders[k].items = <<>>
                 /\ orders[k].total = 0
                 /\ orders[k].status = response.body.status

C9_Witness ==
    /\ response.op = "create_order"
    /\ response.req.items = <<>>
    /\ response.status = 200
    /\ orders # <<>>

\* C10: with no create_menu_item request, concurrent list_menu requests on
\* an empty collection never leave it with more than the seed items.
C10_SeededAtMostOnce ==
    NumCreated(menu) = 0 => Len(menu) <= Len(seed_items)

WithoutIds(docs) ==
    [i \in 1..Len(docs) |-> [k \in DOMAIN docs[i] \ {"_id"} |-> docs[i][k]]]

\* C3, one request at a time: list_menu on an empty collection inserts
\* exactly the seed items and returns them; list_menu on a collection that
\* is not empty writes nothing and returns the collection, so a second call
\* returns the same 4 items.
C3_SeedsOnceThenReads ==
    /\ [](\A t \in Threads :
            /\ pc[t] = "lm_seed" => WithoutIds(menu) = SubSeq(seed_items, 1, loc[t].si - 1)
            /\ pc[t] = "lm_reread" => WithoutIds(menu) = seed_items)
    /\ [][/\ (\E t \in Threads : pc[t] = "lm_reread" /\ pc'[t] = "idle") =>
               /\ menu' = menu
               /\ response'.op = "list_menu"
               /\ Len(response'.body) = Len(seed_items)
               /\ response'.body = SerializeAll(menu)
          /\ (menu # <<>> /\ pc' = pc /\ response'.op = "list_menu") =>
               /\ menu' = menu
               /\ response'.body = SerializeAll(menu)
          /\ (response.op = "list_menu" /\ response'.op = "list_menu") =>
               /\ menu' = menu
               /\ response'.body = response.body]_vars

\* The second of two list_menu calls has answered with the 4 seed items.
C3_Witness ==
    /\ response.op = "list_menu"
    /\ WithoutIds(menu) = seed_items
    /\ response.body = SerializeAll(menu)
    /\ \A t \in Threads : pc[t] = "idle"

====
